---- MODULE Spec2Model ----
(***************************************************************************)
(* Model of wordfence/intel/vulnerabilities.py: VersionRange.includes,     *)
(* VulnerabilityIndex, VulnerabilityFilter and VulnerabilityScanner.       *)
(*                                                                         *)
(* Python dicts are modelled as TLA+ functions whose DOMAIN is the key     *)
(* set; Python lists as sequences.  The catalog (a dict in insertion       *)
(* order) is a sequence of Vulnerability records with distinct             *)
(* identifiers, each stored under its own identifier.                      *)
(***************************************************************************)
EXTENDS Integers, Sequences, FiniteSets, TLC

VARIABLES
    pc,               \* "build" | "ready" (index life cycle), "range", "filter"
    cmpStar,          \* what the comparator answers for ('*', v), per version v
    catalog,          \* VulnerabilityIndex.vulnerabilities
    built,            \* number of catalog entries _initialize_index has indexed
    index,            \* VulnerabilityIndex.index: type -> slug -> [(range, id)]
    filter,           \* VulnerabilityScanner.filter
    vulnerabilities,  \* VulnerabilityScanner.vulnerabilities
    affected,         \* VulnerabilityScanner.affected
    calls,            \* history of the completed scan calls
    ret,              \* the last call made and what it returned
    threads           \* the scan calls in progress, one per calling thread

vars == <<pc, cmpStar, catalog, built, index, filter, vulnerabilities,
          affected, calls, ret, threads>>

----------------------------------------------------------------------------
(* Bounds *)

MaxVer == 3          \* number of distinct version strings in play
MaxScans == 2        \* number of scan calls in one run

----------------------------------------------------------------------------
(* Values *)

VERSION_ANY == "*"
SLUG_WORDPRESS == "wordpress"

CORE == "core"
PLUGIN == "plugin"
THEME == "theme"
SoftwareType == {CORE, PLUGIN, THEME}

\* Version strings, listed in ascending order of the platform's comparator.
VersionOrder == <<"1.0", "1.5", "2.0", "2.5", "3.0", "3.5">>
Versions == {VersionOrder[i] : i \in 1..MaxVer}
Pos(v) == CHOOSE i \in 1..Len(VersionOrder) : VersionOrder[i] = v

Bounds == Versions \cup {VERSION_ANY}
Slugs == {SLUG_WORDPRESS, "hello-dolly"}
Ids == {"A", "B"}

EmptyDict == [k \in {} |-> k]

VersionRange(f, fi, t, ti) ==
    [from_version |-> f, from_inclusive |-> fi,
     to_version |-> t, to_inclusive |-> ti]

AllRanges ==
    {VersionRange(f, fi, t, ti) :
        f \in Bounds, fi \in BOOLEAN, t \in Bounds, ti \in BOOLEAN}

Software(type, slug, ranges) ==
    [type |-> type, slug |-> slug, affected_versions |-> ranges]

Vulnerability(id, info, software) ==
    [identifier |-> id, informational |-> info, software |-> software]

ScannableSoftware(type, slug, version) ==
    [type |-> type, slug |-> slug, version |-> version]

VulnerabilityFilter(excluded, included, informational) ==
    [excluded |-> excluded, included |-> included,
     informational |-> informational]

----------------------------------------------------------------------------
(* The version comparator (util/versioning.py, outside this module):       *)
(* -1, 0 or 1 for two version strings; total.  What it answers when the    *)
(* first argument is the token '*' is left open: cmpStar.                  *)

Sign(n) == IF n < 0 THEN -1 ELSE IF n > 0 THEN 1 ELSE 0

compare_php_versions(a, b) ==
    IF a = VERSION_ANY THEN cmpStar[b]
    ELSE Sign(Pos(a) - Pos(b))

StarPolicies == [Versions -> {-1, 0, 1}]
ConstantStarPolicies == {[v \in Versions |-> x] : x \in {-1, 0, 1}}

----------------------------------------------------------------------------
(* VersionRange.includes *)

\* includes with the upper bound treated as inclusive whatever to_inclusive.
BoundsSatisfiedUpperInclusive(range, from_result, to_result) ==
    /\ (range.from_version = VERSION_ANY
        \/ from_result = -1
        \/ (range.from_inclusive /\ from_result = 0))
    /\ (range.to_version = VERSION_ANY
        \/ to_result = 1
        \/ to_result = 0)

\* includes without the wildcard test on the lower bound.
BoundsSatisfiedNoWildcard(range, from_result, to_result) ==
    /\ (from_result = -1
        \/ (range.from_inclusive /\ from_result = 0))
    /\ (range.to_version = VERSION_ANY
        \/ to_result = 1
        \/ (range.to_inclusive /\ to_result = 0))

\* The two tests of includes, given what the comparator returned.
BoundsSatisfied(range, from_result, to_result) ==
    IF ~(range.from_version = VERSION_ANY
         \/ from_result = -1
         \/ (range.from_inclusive /\ from_result = 0))
    THEN FALSE
    ELSE IF ~(range.to_version = VERSION_ANY
              \/ to_result = 1
              \/ (range.to_inclusive /\ to_result = 0))
         THEN FALSE
         ELSE TRUE

includes(range, version) ==
    BoundsSatisfied(range,
                    compare_php_versions(range.from_version, version),
                    compare_php_versions(range.to_version, version))

\* The comparator calls includes makes, in order, as <<first argument,
\* second argument>>: the lower bound always, the upper bound unless the
\* lower-bound test already returned False.
ComparatorCalls(range, version) ==
    LET from_result == compare_php_versions(range.from_version, version)
    IN  IF ~(range.from_version = VERSION_ANY
             \/ from_result = -1
             \/ (range.from_inclusive /\ from_result = 0))
        THEN << <<range.from_version, version>> >>
        ELSE << <<range.from_version, version>>,
                <<range.to_version, version>> >>

----------------------------------------------------------------------------
(* VulnerabilityIndex *)

\* The pairs one Software entry contributes to its bucket, in the order of
\* affected_versions.values().
RangePairs(software, identifier) ==
    [i \in 1..Len(software.affected_versions) |->
        <<software.affected_versions[i], identifier>>]

\* The loop body with the bucket reset on every Software entry.
AddSoftwareToIndexResetBucket(idx, software, identifier) ==
    [idx EXCEPT ![software.type] =
        [s \in DOMAIN idx[software.type] \cup {software.slug} |->
            IF s = software.slug THEN RangePairs(software, identifier)
            ELSE idx[software.type][s]]]

\* The loop body leaving out the ranges whose bounds are inverted.
AddSoftwareToIndexSkipInverted(idx, software, identifier) ==
    LET type_index == idx[software.type]
        created == IF software.slug \notin DOMAIN type_index
                   THEN type_index @@ (software.slug :> <<>>)
                   ELSE type_index
        Sound(pair) == \/ pair[1].from_version = VERSION_ANY
                       \/ pair[1].to_version = VERSION_ANY
                       \/ Pos(pair[1].from_version) <= Pos(pair[1].to_version)
        software_index == created[software.slug] \o
                          SelectSeq(RangePairs(software, identifier), Sound)
    IN  [idx EXCEPT ![software.type] =
            [created EXCEPT ![software.slug] = software_index]]

\* One iteration of the loop over vulnerability.software.
AddSoftwareToIndex(idx, software, identifier) ==
    LET type_index == idx[software.type]
        created == IF software.slug \notin DOMAIN type_index
                   THEN type_index @@ (software.slug :> <<>>)
                   ELSE type_index
        software_index == created[software.slug] \o
                          RangePairs(software, identifier)
    IN  [idx EXCEPT ![software.type] =
            [created EXCEPT ![software.slug] = software_index]]

RECURSIVE AddSoftwareListToIndex(_, _, _)
AddSoftwareListToIndex(idx, softwares, identifier) ==
    IF softwares = <<>> THEN idx
    ELSE AddSoftwareListToIndex(
             AddSoftwareToIndex(idx, Head(softwares), identifier),
             Tail(softwares), identifier)

_add_vulnerability_to_index(idx, vulnerability) ==
    AddSoftwareListToIndex(idx, vulnerability.software,
                           vulnerability.identifier)

\* self.index after the first loop of _initialize_index.
EmptyIndex == [type \in SoftwareType |-> EmptyDict]

\* self.vulnerabilities[identifier]
CatalogEntry(identifier) ==
    LET i == CHOOSE j \in 1..Len(catalog) :
                 catalog[j].identifier = identifier
    IN  catalog[i]

\* The identifiers of the bucket's pairs whose range includes the version,
\* one per matching pair, in bucket order; empty when there is no bucket.
MatchingPairs(software_type, slug, version) ==
    LET type_index == index[software_type]
    IN  IF slug \in DOMAIN type_index
        THEN LET software_index == type_index[slug]
                 Hit(pair) == includes(pair[1], version)
             IN  SelectSeq(software_index, Hit)
        ELSE <<>>

get_vulnerabilities(software_type, slug, version) ==
    LET matched == MatchingPairs(software_type, slug, version)
        identifiers == {matched[i][2] : i \in 1..Len(matched)}
    IN  [identifier \in identifiers |-> CatalogEntry(identifier)]

----------------------------------------------------------------------------
(* VulnerabilityFilter *)

\* allows with the whitelist consulted first and accepting on a hit.
allowsIncludedFirst(vulnerability) ==
    IF Cardinality(filter.included) # 0
       /\ vulnerability.identifier \in filter.included THEN TRUE
    ELSE IF vulnerability.identifier \in filter.excluded THEN FALSE
    ELSE IF Cardinality(filter.included) # 0 THEN FALSE
    ELSE IF vulnerability.informational /\ ~filter.informational THEN FALSE
    ELSE TRUE

allows(vulnerability) ==
    IF vulnerability.identifier \in filter.excluded THEN FALSE
    ELSE IF Cardinality(filter.included) # 0
            /\ vulnerability.identifier \notin filter.included THEN FALSE
    ELSE IF vulnerability.informational /\ ~filter.informational THEN FALSE
    ELSE TRUE

\* filter returning the mapping it was given.
FilterKeepsAll(found) == found

Filter(found) ==
    LET kept == {identifier \in DOMAIN found : allows(found[identifier])}
    IN  [identifier \in kept |-> found[identifier]]

----------------------------------------------------------------------------
(* VulnerabilityScanner *)

\* scan returning only the identifiers not accumulated before.
ScanResultOnlyNew(software) ==
    LET kept == Filter(get_vulnerabilities(software.type, software.slug,
                                           software.version))
        fresh == DOMAIN kept \ DOMAIN vulnerabilities
    IN  [identifier \in fresh |-> kept[identifier]]

\* What scan returns: the filtered index query.
ScanResult(software) ==
    Filter(get_vulnerabilities(software.type, software.slug,
                               software.version))

\* self.vulnerabilities = vulnerabilities instead of update.
UpdateReplace(accumulated, result) == result

\* self.vulnerabilities.update(vulnerabilities)
Update(accumulated, result) ==
    [identifier \in DOMAIN accumulated \cup DOMAIN result |->
        IF identifier \in DOMAIN result THEN result[identifier]
        ELSE accumulated[identifier]]

\* The loop with insert(0, software) instead of append.
RecordAffectedPrepend(lists, result, software) ==
    [identifier \in DOMAIN lists \cup DOMAIN result |->
        IF identifier \in DOMAIN result
        THEN <<software>> \o (IF identifier \notin DOMAIN lists THEN <<>>
                              ELSE lists[identifier])
        ELSE lists[identifier]]

\* The loop run over the matching (range, identifier) pairs of the bucket
\* instead of over the returned mapping: one append per matching range.
RecordAffectedPerRange(lists, result, software) ==
    LET matched == MatchingPairs(software.type, software.slug,
                                 software.version)
        Times(identifier) ==
            Cardinality({i \in 1..Len(matched) : matched[i][2] = identifier})
    IN  [identifier \in DOMAIN lists \cup DOMAIN result |->
            IF identifier \in DOMAIN result
            THEN (IF identifier \notin DOMAIN lists THEN <<>>
                  ELSE lists[identifier])
                 \o [n \in 1..Times(identifier) |-> software]
            ELSE lists[identifier]]

\* The loop over the returned identifiers: create the list when the
\* identifier is new, then append the software.
RecordAffected(lists, result, software) ==
    [identifier \in DOMAIN lists \cup DOMAIN result |->
        IF identifier \in DOMAIN result
        THEN Append(IF identifier \notin DOMAIN lists THEN <<>>
                    ELSE lists[identifier],
                    software)
        ELSE lists[identifier]]

get_vulnerability_count == Cardinality(DOMAIN vulnerabilities)

RECURSIVE SumLengths(_, _)
SumLengths(lists, keys) ==
    IF keys = {} THEN 0
    ELSE LET k == CHOOSE x \in keys : TRUE
         IN  Len(lists[k]) + SumLengths(lists, keys \ {k})

get_affected_count == SumLengths(affected, DOMAIN affected)

----------------------------------------------------------------------------
(* Inputs: catalogs, filters, scan targets *)

HELLO == "hello-dolly"

RClosedOpen == VersionRange("1.0", TRUE, "2.0", FALSE)
ROpen == VersionRange("1.0", FALSE, "2.0", FALSE)
RUpTo == VersionRange(VERSION_ANY, FALSE, "1.5", TRUE)
RAny == VersionRange(VERSION_ANY, FALSE, VERSION_ANY, FALSE)
RInverted == VersionRange("2.0", TRUE, "1.0", TRUE)

RangePool == {RClosedOpen, RUpTo, RAny, RInverted}

SoftwareKeys ==
    {<<CORE, SLUG_WORDPRESS>>, <<PLUGIN, HELLO>>, <<THEME, HELLO>>}

\* Two vulnerabilities: A declares a plugin with two ranges and a second
\* Software entry, B is informational and declares one Software entry.
CatalogFamily ==
    {<<Vulnerability("A", FALSE,
           <<Software(PLUGIN, HELLO, <<r1, r2>>),
             Software(k1[1], k1[2], <<r3>>)>>),
       Vulnerability("B", TRUE,
           <<Software(k2[1], k2[2], <<r4>>)>>)>> :
        r1 \in RangePool, r2 \in RangePool, r3 \in RangePool,
        r4 \in RangePool, k1 \in SoftwareKeys, k2 \in SoftwareKeys}

\* The empty catalog, a vulnerability without software, a Software entry
\* without ranges.
EdgeCatalogs ==
    {<<>>,
     <<Vulnerability("A", FALSE, <<>>)>>,
     <<Vulnerability("A", FALSE, <<Software(PLUGIN, HELLO, <<>>)>>),
       Vulnerability("B", FALSE, <<Software(PLUGIN, HELLO, <<RAny>>)>>)>>}

IndexCatalogs == CatalogFamily \cup EdgeCatalogs

\* One plugin range, and an informational core vulnerability.
CatalogEndToEnd ==
    <<Vulnerability("A", FALSE,
          <<Software(PLUGIN, HELLO, <<RClosedOpen>>)>>),
      Vulnerability("B", TRUE,
          <<Software(CORE, SLUG_WORDPRESS, <<RAny>>)>>)>>

\* A through two ranges and through two Software entries of one slug.
CatalogManyRanges ==
    <<Vulnerability("A", FALSE,
          <<Software(PLUGIN, HELLO, <<RClosedOpen, RUpTo>>),
            Software(PLUGIN, HELLO, <<RAny>>)>>),
      Vulnerability("B", FALSE,
          <<Software(PLUGIN, HELLO, <<ROpen>>)>>)>>

\* A under two types, B informational in the plugin and theme buckets.
CatalogTwoTypes ==
    <<Vulnerability("A", FALSE,
          <<Software(THEME, HELLO, <<RClosedOpen>>),
            Software(CORE, SLUG_WORDPRESS, <<RUpTo>>)>>),
      Vulnerability("B", TRUE,
          <<Software(PLUGIN, HELLO, <<RAny>>),
            Software(THEME, HELLO, <<ROpen>>)>>)>>

\* Ranges whose bounds are inverted.
CatalogInverted ==
    <<Vulnerability("A", FALSE,
          <<Software(PLUGIN, HELLO, <<RInverted>>)>>),
      Vulnerability("B", FALSE,
          <<Software(PLUGIN, HELLO, <<RInverted, RClosedOpen>>)>>)>>

\* A bucket without ranges, both vulnerabilities in core.
CatalogEmptyBucket ==
    <<Vulnerability("A", FALSE,
          <<Software(PLUGIN, HELLO, <<>>),
            Software(CORE, SLUG_WORDPRESS, <<RUpTo>>)>>),
      Vulnerability("B", FALSE,
          <<Software(CORE, SLUG_WORDPRESS, <<RAny>>)>>)>>

ScanCatalogs ==
    {CatalogEndToEnd, CatalogManyRanges, CatalogTwoTypes, CatalogInverted,
     CatalogEmptyBucket}

AllFilters ==
    {VulnerabilityFilter(e, i, f) :
        e \in SUBSET Ids, i \in SUBSET Ids, f \in BOOLEAN}

DEFAULT_FILTER == VulnerabilityFilter({}, {}, FALSE)

ScanFilters ==
    {DEFAULT_FILTER,
     VulnerabilityFilter({}, {}, TRUE),
     VulnerabilityFilter({"A"}, {"A", "B"}, FALSE),
     VulnerabilityFilter({}, {"B"}, TRUE),
     VulnerabilityFilter({"B"}, {}, FALSE),
     VulnerabilityFilter({}, {"A"}, FALSE)}

\* scan_core, scan_plugin, scan_theme, and a slug that has no bucket.
ScanKeys == SoftwareKeys \cup {<<PLUGIN, SLUG_WORDPRESS>>}

ScanTargets ==
    {ScannableSoftware(k[1], k[2], v) : k \in ScanKeys, v \in Versions}

\* A plugin slug that has a bucket and one that has none.
SharedTargets ==
    {ScannableSoftware(PLUGIN, s, v) : s \in Slugs, v \in Versions}

AllTargets ==
    {ScannableSoftware(t, s, v) :
        t \in SoftwareType, s \in Slugs, v \in Versions}

VulnerabilityRecords ==
    {Vulnerability(id, info, <<>>) : id \in Ids, info \in BOOLEAN}

NoCall == [op |-> "none"]

\* No scan call in progress: the callers are not modelled as threads.
NoThreads == EmptyDict

----------------------------------------------------------------------------
(* The scanner over its index: the index is built, then software is scanned *)

Init ==
    /\ pc = "build"
    /\ cmpStar \in ConstantStarPolicies
    /\ catalog \in ScanCatalogs
    /\ built = 0
    /\ index = EmptyIndex
    /\ filter \in ScanFilters
    /\ vulnerabilities = EmptyDict
    /\ affected = EmptyDict
    /\ calls = <<>>
    /\ ret = NoCall
    /\ threads = NoThreads

\* One iteration of the loop of _initialize_index over the catalog.
AddVulnerabilityToIndex ==
    /\ pc = "build"
    /\ built < Len(catalog)
    /\ index' = _add_vulnerability_to_index(index, catalog[built + 1])
    /\ built' = built + 1
    /\ UNCHANGED <<threads, pc, cmpStar, catalog, filter, vulnerabilities,
                   affected,
                   calls, ret>>

\* The loop is over: VulnerabilityIndex.__init__ returns.
IndexBuilt ==
    /\ pc = "build"
    /\ built = Len(catalog)
    /\ pc' = "ready"
    /\ UNCHANGED <<threads, cmpStar, catalog, built, index, filter,
                   vulnerabilities,
                   affected, calls, ret>>

\* The query creating the bucket it did not find.
GetVulnerabilitiesCreatesBucket(software) ==
    /\ pc = "ready"
    /\ ret' = [op |-> "get", software |-> software,
               result |-> get_vulnerabilities(software.type, software.slug,
                                              software.version)]
    /\ index' = IF software.slug \in DOMAIN index[software.type]
                THEN index
                ELSE [index EXCEPT ![software.type] =
                         @ @@ (software.slug :> <<>>)]
    /\ UNCHANGED <<threads, pc, cmpStar, catalog, built, filter,
                   vulnerabilities, affected, calls>>

GetVulnerabilities(software) ==
    /\ pc = "ready"
    /\ ret' = [op |-> "get", software |-> software,
               result |-> get_vulnerabilities(software.type, software.slug,
                                              software.version)]
    /\ UNCHANGED <<threads, pc, cmpStar, catalog, built, index, filter,
                   vulnerabilities, affected, calls>>

Scan(software) ==
    /\ pc = "ready"
    /\ Len(calls) < MaxScans
    /\ LET found == get_vulnerabilities(software.type, software.slug,
                                        software.version)
           result == ScanResult(software)
       IN  /\ vulnerabilities' = Update(vulnerabilities, result)
           /\ affected' = RecordAffected(affected, result, software)
           /\ calls' = Append(calls, [software |-> software,
                                      found |-> found,
                                      result |-> result])
           /\ ret' = [op |-> "scan", software |-> software,
                      result |-> result]
    /\ UNCHANGED <<threads, pc, cmpStar, catalog, built, index, filter>>

Next ==
    \/ AddVulnerabilityToIndex
    \/ IndexBuilt
    \/ \E software \in ScanTargets : Scan(software)

Spec == Init /\ [][Next]_vars

----------------------------------------------------------------------------
(* The index alone: built from a catalog, then queried *)

InitIndex ==
    /\ pc = "build"
    /\ cmpStar \in ConstantStarPolicies
    /\ catalog \in IndexCatalogs
    /\ built = 0
    /\ index = EmptyIndex
    /\ filter = DEFAULT_FILTER
    /\ vulnerabilities = EmptyDict
    /\ affected = EmptyDict
    /\ calls = <<>>
    /\ ret = NoCall
    /\ threads = NoThreads

NextIndex ==
    \/ AddVulnerabilityToIndex
    \/ IndexBuilt
    \/ \E software \in AllTargets : GetVulnerabilities(software)

SpecIndex == InitIndex /\ [][NextIndex]_vars

----------------------------------------------------------------------------
(* One index shared by a scanner and by direct queries *)

InitShared ==
    /\ pc = "build"
    /\ cmpStar \in ConstantStarPolicies
    /\ catalog \in ScanCatalogs
    /\ built = 0
    /\ index = EmptyIndex
    /\ filter = DEFAULT_FILTER
    /\ vulnerabilities = EmptyDict
    /\ affected = EmptyDict
    /\ calls = <<>>
    /\ ret = NoCall
    /\ threads = NoThreads

NextShared ==
    \/ AddVulnerabilityToIndex
    \/ IndexBuilt
    \/ \E software \in SharedTargets : Scan(software)
    \/ \E software \in SharedTargets : GetVulnerabilities(software)

SpecShared == InitShared /\ [][NextShared]_vars

----------------------------------------------------------------------------
(* VersionRange.includes on its own *)

InitRange ==
    /\ pc = "range"
    /\ cmpStar \in StarPolicies
    /\ catalog = <<>>
    /\ built = 0
    /\ index = EmptyIndex
    /\ filter = DEFAULT_FILTER
    /\ vulnerabilities = EmptyDict
    /\ affected = EmptyDict
    /\ calls = <<>>
    /\ \E range \in AllRanges, version \in Versions :
           ret = [op |-> "pending", range |-> range, version |-> version]
    /\ threads = NoThreads

Includes(range, version) ==
    /\ pc = "range"
    /\ ret = [op |-> "pending", range |-> range, version |-> version]
    /\ ret' = [op |-> "includes", range |-> range, version |-> version,
               result |-> includes(range, version),
               compared |-> ComparatorCalls(range, version)]
    /\ UNCHANGED <<threads, pc, cmpStar, catalog, built, index, filter,
                   vulnerabilities, affected, calls>>

NextRange ==
    \E range \in AllRanges, version \in Versions : Includes(range, version)

SpecRange == InitRange /\ [][NextRange]_vars

----------------------------------------------------------------------------
(* VulnerabilityFilter.allows on its own *)

InitFilter ==
    /\ pc = "filter"
    /\ cmpStar = [v \in Versions |-> 0]
    /\ catalog = <<>>
    /\ built = 0
    /\ index = EmptyIndex
    /\ filter \in AllFilters
    /\ vulnerabilities = EmptyDict
    /\ affected = EmptyDict
    /\ calls = <<>>
    /\ \E vulnerability \in VulnerabilityRecords :
           ret = [op |-> "pending", vulnerability |-> vulnerability]
    /\ threads = NoThreads

Allows(vulnerability) ==
    /\ pc = "filter"
    /\ ret = [op |-> "pending", vulnerability |-> vulnerability]
    /\ ret' = [op |-> "allows", vulnerability |-> vulnerability,
               result |-> allows(vulnerability)]
    /\ UNCHANGED <<threads, pc, cmpStar, catalog, built, index, filter,
                   vulnerabilities, affected, calls>>

NextFilter ==
    \E vulnerability \in VulnerabilityRecords : Allows(vulnerability)

SpecFilter == InitFilter /\ [][NextFilter]_vars

----------------------------------------------------------------------------
(* Properties of VersionRange.includes, under SpecRange *)

Before(a, b) == Pos(a) < Pos(b)

\* C2: includes(version) is true exactly when (from_version is '*' or
\* from_version < version or (from_inclusive and from_version = version))
\* and (to_version is '*' or to_version > version or (to_inclusive and
\* to_version = version)); a version equal to an exclusive bound is
\* excluded, a version equal to an inclusive bound that also satisfies the
\* other bound is included, and a range with both bounds '*' includes every
\* version.
C2_IncludesLaw ==
    ret.op = "includes" =>
        LET r == ret.range
            v == ret.version
            lower == \/ r.from_version = VERSION_ANY
                     \/ Before(r.from_version, v)
                     \/ (r.from_inclusive /\ r.from_version = v)
            upper == \/ r.to_version = VERSION_ANY
                     \/ Before(v, r.to_version)
                     \/ (r.to_inclusive /\ r.to_version = v)
        IN  /\ ret.result = (lower /\ upper)
            /\ (r.from_version = v /\ ~r.from_inclusive) => ~ret.result
            /\ (r.to_version = v /\ ~r.to_inclusive) => ~ret.result
            /\ (r.from_version = v /\ r.from_inclusive /\ upper) => ret.result
            /\ (r.to_version = v /\ r.to_inclusive /\ lower) => ret.result
            /\ (r.from_version = VERSION_ANY /\ r.to_version = VERSION_ANY)
                   => ret.result

\* C2 witness: a version equal to the exclusive upper bound of a range whose
\* lower bound it satisfies has been tested and found outside.
C2_Witness ==
    /\ ret.op = "includes"
    /\ ret.range = VersionRange("1.0", TRUE, "2.0", FALSE)
    /\ ret.version = "2.0"
    /\ ~ret.result

\* C10 as stated: includes makes no comparator call whose first argument is
\* the wildcard '*'.
C10_NoComparatorCallOnWildcard ==
    ret.op = "includes" =>
        \A i \in 1..Len(ret.compared) : ret.compared[i][1] # VERSION_ANY

\* C10 amended: includes calls the comparator on from_version first, also
\* when from_version is '*', and on to_version exactly when the lower-bound
\* test passed, also when to_version is '*'; what the comparator returns for
\* a wildcard bound is ignored: the result is the same for each of the
\* values -1, 0 and 1 it could return.
C10_WildcardResultIgnored ==
    ret.op = "includes" =>
        LET r == ret.range
            v == ret.version
            from_result == compare_php_versions(r.from_version, v)
            to_result == compare_php_versions(r.to_version, v)
            lower == \/ r.from_version = VERSION_ANY
                     \/ Before(r.from_version, v)
                     \/ (r.from_inclusive /\ r.from_version = v)
        IN  /\ ret.compared[1] = <<r.from_version, v>>
            /\ Len(ret.compared) = (IF lower THEN 2 ELSE 1)
            /\ lower => ret.compared[2] = <<r.to_version, v>>
            /\ r.from_version = VERSION_ANY =>
                   \A x \in {-1, 0, 1} :
                       BoundsSatisfied(r, x, to_result) = ret.result
            /\ r.to_version = VERSION_ANY =>
                   \A y \in {-1, 0, 1} :
                       BoundsSatisfied(r, from_result, y) = ret.result

\* C10 witness: a range with both bounds '*' has been tested, the comparator
\* was called with '*' for each bound and answers 1 for it, and the version
\* is included.
C10_Witness ==
    /\ ret.op = "includes"
    /\ ret.range.from_version = VERSION_ANY
    /\ ret.range.to_version = VERSION_ANY
    /\ ret.compared = << <<VERSION_ANY, ret.version>>,
                         <<VERSION_ANY, ret.version>> >>
    /\ cmpStar[ret.version] = 1
    /\ ret.result

----------------------------------------------------------------------------
(* Properties of VulnerabilityFilter.allows, under SpecFilter *)

\* C3: allows(v) is true exactly when v.identifier is not in excluded, and
\* (included is empty or v.identifier is in included), and (v.informational
\* is false or the filter's informational flag is true); an identifier in
\* both excluded and included is rejected, and an empty included set imposes
\* no whitelist restriction.
C3_AllowsLaw ==
    ret.op = "allows" =>
        LET v == ret.vulnerability
        IN  /\ ret.result =
                   (/\ v.identifier \notin filter.excluded
                    /\ (filter.included = {}
                        \/ v.identifier \in filter.included)
                    /\ (~v.informational \/ filter.informational))
            /\ (v.identifier \in filter.excluded
                /\ v.identifier \in filter.included) => ~ret.result
            /\ (filter.included = {}
                /\ v.identifier \notin filter.excluded
                /\ ~v.informational) => ret.result

\* C3 witness: an identifier in both excluded and included has been
\* rejected.
C3_Witness ==
    /\ ret.op = "allows"
    /\ ret.vulnerability.identifier \in filter.excluded
    /\ ret.vulnerability.identifier \in filter.included
    /\ ~ret.vulnerability.informational
    /\ ~ret.result

----------------------------------------------------------------------------
(* Properties of VulnerabilityIndex, under SpecIndex *)

\* Some Software entry of the vulnerability with this type and slug has a
\* range that includes the version.
Affects(vulnerability, type, slug, version) ==
    \E j \in 1..Len(vulnerability.software) :
        LET software == vulnerability.software[j]
        IN  /\ software.type = type
            /\ software.slug = slug
            /\ \E k \in 1..Len(software.affected_versions) :
                   includes(software.affected_versions[k], version)

\* C1: get_vulnerabilities(type, slug, version) returns identifier id if and
\* only if some Software entry of vulnerability id with that type and slug
\* has an affected_versions range that includes the version; every returned
\* id maps to the catalog's record for it; ranges recorded under another
\* type or slug do not contribute.
C1_IndexQueryLaw ==
    ret.op = "get" =>
        LET q == ret.software
        IN  /\ DOMAIN ret.result =
                   {catalog[i].identifier : i \in
                       {n \in 1..Len(catalog) :
                           Affects(catalog[n], q.type, q.slug, q.version)}}
            /\ \A i \in 1..Len(catalog) :
                   catalog[i].identifier \in DOMAIN ret.result =>
                       ret.result[catalog[i].identifier] = catalog[i]

\* C1 witness: a query returned A alone while B has, under another type or
\* slug, a range that includes the queried version.
C1_Witness ==
    /\ ret.op = "get"
    /\ DOMAIN ret.result = {"A"}
    /\ \E i \in 1..Len(catalog) :
           /\ catalog[i].identifier = "B"
           /\ \E t \in SoftwareType, s \in Slugs :
                  /\ <<t, s>> # <<ret.software.type, ret.software.slug>>
                  /\ Affects(catalog[i], t, s, ret.software.version)

----------------------------------------------------------------------------
(* Properties of VulnerabilityScanner, under Spec *)

\* The identifiers returned by at least one completed scan call.
Returned == UNION {DOMAIN calls[i].result : i \in 1..Len(calls)}

RECURSIVE TotalReturned(_)
TotalReturned(n) ==
    IF n = 0 THEN 0
    ELSE Cardinality(DOMAIN calls[n].result) + TotalReturned(n - 1)

\* The arguments of the calls that returned the identifier, in call order.
RECURSIVE ArgumentsReturning(_, _)
ArgumentsReturning(identifier, n) ==
    IF n = 0 THEN <<>>
    ELSE IF identifier \in DOMAIN calls[n].result
         THEN Append(ArgumentsReturning(identifier, n - 1), calls[n].software)
         ELSE ArgumentsReturning(identifier, n - 1)

\* C4: after any sequence of scan calls, get_vulnerability_count() is the
\* number of distinct identifiers returned by at least one call,
\* get_affected_count() is the sum over the calls of the size of the mapping
\* returned, and affected[id] is the sequence of the arguments of the calls
\* that returned id, in call order (no entry for an id never returned).
C4_Accumulation ==
    /\ get_vulnerability_count = Cardinality(Returned)
    /\ DOMAIN vulnerabilities = Returned
    /\ get_affected_count = TotalReturned(Len(calls))
    /\ DOMAIN affected = Returned
    /\ \A identifier \in Returned :
           affected[identifier] = ArgumentsReturning(identifier, Len(calls))

\* C4 witness: two scans of two distinct pieces of software both returned A
\* and nothing else: one vulnerability, two affected.
C4_Witness ==
    /\ Len(calls) = 2
    /\ calls[1].software.slug # calls[2].software.slug
    /\ DOMAIN calls[1].result = {"A"}
    /\ DOMAIN calls[2].result = {"A"}
    /\ get_vulnerability_count = 1
    /\ get_affected_count = 2
    /\ affected["A"] = <<calls[1].software, calls[2].software>>

\* C5: the mapping scan returns is the filter applied to the index query for
\* the argument's type, slug and version, whatever the scanner has
\* accumulated: equal arguments give equal mappings, identifiers already
\* accumulated included.
C5_ScanResultStateless ==
    /\ \A i \in 1..Len(calls) :
           LET sw == calls[i].software
               found == get_vulnerabilities(sw.type, sw.slug, sw.version)
           IN  /\ calls[i].found = found
               /\ DOMAIN calls[i].result =
                      {id \in DOMAIN found : allows(found[id])}
               /\ \A id \in DOMAIN calls[i].result :
                      calls[i].result[id] = found[id]
    /\ \A i, j \in 1..Len(calls) :
           calls[i].software = calls[j].software =>
               calls[i].result = calls[j].result
    /\ ret.op = "scan" => ret.result = calls[Len(calls)].result

\* C5 witness: the same software was scanned twice and the second call
\* returned an identifier that was already accumulated.
C5_Witness ==
    /\ Len(calls) = 2
    /\ calls[1].software = calls[2].software
    /\ "A" \in DOMAIN calls[1].result
    /\ "A" \in DOMAIN calls[2].result

LengthOf(lists, identifier) ==
    IF identifier \in DOMAIN lists THEN Len(lists[identifier]) ELSE 0

\* C6: in one scan call the software is appended to affected[id] exactly
\* once for each id the call returns, also when several ranges or Software
\* entries of the bucket match: the length of affected[id] grows by 1 for a
\* returned id and by 0 for any other.
C6_OneAppendPerCall ==
    [][calls' # calls =>
          \A identifier \in Ids :
              /\ LengthOf(affected', identifier) =
                     LengthOf(affected, identifier) +
                     (IF identifier \in DOMAIN ret'.result THEN 1 ELSE 0)
              /\ identifier \in DOMAIN ret'.result =>
                     affected'[identifier] =
                         (IF identifier \in DOMAIN affected
                          THEN affected[identifier] ELSE <<>>)
                         \o <<ret'.software>>]_vars

\* C6 witness: one scan whose version matched A through three pairs of the
\* bucket left one entry in affected[A].
C6_Witness ==
    /\ Len(calls) = 1
    /\ LET sw == calls[1].software
           matched == MatchingPairs(sw.type, sw.slug, sw.version)
       IN  Cardinality({i \in 1..Len(matched) : matched[i][2] = "A"}) = 3
    /\ affected["A"] = <<calls[1].software>>

IsPrefix(s, t) == Len(s) <= Len(t) /\ SubSeq(t, 1, Len(s)) = s

\* C7: across every step the key set of vulnerabilities only grows, every
\* affected[id] list is a prefix of the list after the step, and the two
\* counts never decrease.
C7_Monotonic ==
    [][/\ DOMAIN vulnerabilities \subseteq DOMAIN vulnerabilities'
       /\ DOMAIN affected \subseteq DOMAIN affected'
       /\ \A identifier \in DOMAIN affected :
              IsPrefix(affected[identifier], affected'[identifier])
       /\ get_vulnerability_count' >= get_vulnerability_count
       /\ get_affected_count' >= get_affected_count]_vars

\* C7 witness: a first scan returned A and B, a second scan of other
\* software returned B only, and A is still accumulated with its entry.
C7_Witness ==
    /\ Len(calls) = 2
    /\ DOMAIN calls[1].result = {"A", "B"}
    /\ DOMAIN calls[2].result = {"B"}
    /\ DOMAIN vulnerabilities = {"A", "B"}
    /\ affected["A"] = <<calls[1].software>>
    /\ Len(affected["B"]) = 2

----------------------------------------------------------------------------
(* The index after construction, under SpecShared and SpecIndex *)

\* C8: once the index is built, every get_vulnerabilities call and every
\* scan call leaves the buckets and the catalog unchanged, every query (for
\* a slug with or without a bucket) has the same answer after the step as
\* before it, and a query returns what the scans that queried the same
\* target before it found.
C8_IndexNeverMutated ==
    [][pc = "ready" =>
          /\ index' = index
          /\ catalog' = catalog
          /\ \A q \in AllTargets :
                 get_vulnerabilities(q.type, q.slug, q.version)' =
                 get_vulnerabilities(q.type, q.slug, q.version)
          /\ ret'.op = "get" =>
                 \A i \in 1..Len(calls') :
                     calls'[i].software = ret'.software =>
                         calls'[i].found = ret'.result
          /\ \A i, j \in 1..Len(calls') :
                 calls'[i].software = calls'[j].software =>
                     calls'[i].found = calls'[j].found]_vars

\* C8 witness: a query came after two scans, the first of the same target,
\* which found A, the second of a slug without a bucket; the query returned
\* the same mapping.
C8_Witness ==
    /\ ret.op = "get"
    /\ Len(calls) = 2
    /\ calls[1].software = ret.software
    /\ "A" \in DOMAIN calls[1].found
    /\ calls[2].software.slug \notin DOMAIN index[calls[2].software.type]
    /\ ret.result = calls[1].found

Inverted(range) ==
    /\ range.from_version # VERSION_ANY
    /\ range.to_version # VERSION_ANY
    /\ Pos(range.from_version) > Pos(range.to_version)

\* The (type, slug, range, identifier) of every inverted range of the
\* catalog.
InvertedEntries ==
    {<<catalog[i].software[j].type, catalog[i].software[j].slug,
       catalog[i].software[j].affected_versions[k],
       catalog[i].identifier>> :
        <<i, j, k>> \in
            {t \in (1..Len(catalog)) \X (1..2) \X (1..2) :
                /\ t[2] <= Len(catalog[t[1]].software)
                /\ t[3] <= Len(catalog[t[1]].software[t[2]].affected_versions)
                /\ Inverted(catalog[t[1]].software[t[2]]
                                .affected_versions[t[3]])}}

\* C9 as stated: a catalog with an inverted range never gets a built index:
\* construction fails instead.
C9_InvertedRangeFailsBuild ==
    InvertedEntries # {} => pc # "ready"

\* C9 amended: construction succeeds on a catalog with an inverted range.
\* The range is inserted in its bucket like any other, and it includes no
\* version, so it contributes to no query result.
C9_InvertedRangeIndexed ==
    (pc = "ready" /\ InvertedEntries # {}) =>
        /\ \A e \in InvertedEntries :
               /\ e[2] \in DOMAIN index[e[1]]
               /\ \E n \in 1..Len(index[e[1]][e[2]]) :
                      index[e[1]][e[2]][n] = <<e[3], e[4]>>
               /\ \A v \in Versions : ~includes(e[3], v)
        /\ ret.op = "get" =>
               \A id \in DOMAIN ret.result :
                   \E i \in 1..Len(catalog) :
                       /\ catalog[i].identifier = id
                       /\ \E j \in 1..Len(catalog[i].software) :
                              \E k \in 1..Len(catalog[i].software[j]
                                                  .affected_versions) :
                                  LET r == catalog[i].software[j]
                                               .affected_versions[k]
                                  IN  ~Inverted(r)
                                      /\ includes(r, ret.software.version)

\* C9 witness: the index was built from a catalog whose plugin bucket holds
\* inverted ranges only, and a query for a version equal to a bound of the
\* range returned nothing.
C9_Witness ==
    /\ pc = "ready"
    /\ ret.op = "get"
    /\ ret.software.type = PLUGIN
    /\ ret.software.slug = HELLO
    /\ ret.software.version = "2.0"
    /\ HELLO \in DOMAIN index[PLUGIN]
    /\ Len(index[PLUGIN][HELLO]) = 2
    /\ \A n \in 1..2 : Inverted(index[PLUGIN][HELLO][n][1])
    /\ ret.result = EmptyDict

----------------------------------------------------------------------------
(* The accumulators of VulnerabilityScanner, under Spec *)

\* C12: after any sequence of completed scan calls the key set of affected
\* equals the key set of vulnerabilities, every affected[id] list is
\* non-empty, and every accumulated identifier is one the filter allows:
\* never an excluded identifier, never an informational vulnerability when
\* the filter's informational flag is false.
C12_AccumulatorsConsistent ==
    /\ DOMAIN affected = DOMAIN vulnerabilities
    /\ \A identifier \in DOMAIN affected : affected[identifier] # <<>>
    /\ \A identifier \in DOMAIN vulnerabilities :
           LET vulnerability == vulnerabilities[identifier]
           IN  /\ vulnerability.identifier = identifier
               /\ allows(vulnerability)
               /\ identifier \notin filter.excluded
               /\ vulnerability.informational => filter.informational

\* C12 witness: a scan found A and B in the index, the filter rejected B,
\* and the accumulators hold A alone.
C12_Witness ==
    /\ Len(calls) >= 1
    /\ DOMAIN calls[1].found = {"A", "B"}
    /\ DOMAIN calls[1].result = {"A"}
    /\ DOMAIN vulnerabilities = {"A"}
    /\ DOMAIN affected = {"A"}
    /\ affected["A"] # <<>>

----------------------------------------------------------------------------
(* scan called from several threads on one scanner, a statement at a time *)

Threads == {"t1", "t2"}

IdleThread ==
    [pc |-> "idle", software |-> <<>>, found |-> EmptyDict,
     result |-> EmptyDict, todo |-> <<>>, raced |-> FALSE]

\* The identifiers of a sequence, each at the place of its first occurrence:
\* the key order of a dict filled by assignments in that order.
RECURSIVE FirstOccurrences(_)
FirstOccurrences(ids) ==
    IF ids = <<>> THEN <<>>
    ELSE LET rest == FirstOccurrences(SubSeq(ids, 1, Len(ids) - 1))
             last == ids[Len(ids)]
         IN  IF \E i \in 1..Len(rest) : rest[i] = last THEN rest
             ELSE Append(rest, last)

\* The order in which the loop of scan visits the returned identifiers.
ResultOrder(software) ==
    LET matched == MatchingPairs(software.type, software.slug,
                                 software.version)
        ids == [i \in 1..Len(matched) |-> matched[i][2]]
        result == ScanResult(software)
        Kept(identifier) == identifier \in DOMAIN result
    IN  SelectSeq(FirstOccurrences(ids), Kept)

\* The membership test without its condition: the list is always created.
NeedsListAlways(lists, identifier) == TRUE

\* if identifier not in self.affected
NeedsList(lists, identifier) == identifier \notin DOMAIN lists

\* self.affected[identifier] = []
WithEmptyList(lists, identifier) ==
    [k \in DOMAIN lists \cup {identifier} |->
        IF k = identifier THEN <<>> ELSE lists[k]]

\* self.affected[identifier].append(software)
WithAppended(lists, identifier, software) ==
    [lists EXCEPT ![identifier] = Append(@, software)]

\* Some other thread is inside scan.
OthersBusy(t) == \E u \in Threads \ {t} : threads[u].pc # "idle"

InProgress == {t \in Threads : threads[t].pc # "idle"}

InitConcurrent ==
    /\ pc = "build"
    /\ cmpStar \in ConstantStarPolicies
    /\ catalog \in ScanCatalogs
    /\ built = 0
    /\ index = EmptyIndex
    /\ filter = DEFAULT_FILTER
    /\ vulnerabilities = EmptyDict
    /\ affected = EmptyDict
    /\ calls = <<>>
    /\ ret = NoCall
    /\ threads = [t \in Threads |-> IdleThread]

\* scan is entered: the index query and the filter, on locals.
BeginScan(t, software) ==
    /\ pc = "ready"
    /\ threads[t].pc = "idle"
    /\ Len(calls) + Cardinality(InProgress) < MaxScans
    /\ threads' = [threads EXCEPT ![t] =
           [pc |-> "update", software |-> software,
            found |-> get_vulnerabilities(software.type, software.slug,
                                          software.version),
            result |-> ScanResult(software),
            todo |-> ResultOrder(software),
            raced |-> threads[t].raced \/ OthersBusy(t)]]
    /\ UNCHANGED <<pc, cmpStar, catalog, built, index, filter,
                   vulnerabilities, affected, calls, ret>>

\* self.vulnerabilities.update(vulnerabilities)
UpdateVulnerabilities(t) ==
    /\ threads[t].pc = "update"
    /\ vulnerabilities' = Update(vulnerabilities, threads[t].result)
    /\ threads' = [threads EXCEPT
           ![t].pc = IF threads[t].todo = <<>> THEN "return" ELSE "test",
           ![t].raced = @ \/ OthersBusy(t)]
    /\ UNCHANGED <<pc, cmpStar, catalog, built, index, filter, affected,
                   calls, ret>>

\* if identifier not in self.affected
TestMembership(t) ==
    /\ threads[t].pc = "test"
    /\ threads' = [threads EXCEPT
           ![t].pc = IF NeedsList(affected, Head(threads[t].todo))
                     THEN "create" ELSE "append",
           ![t].raced = @ \/ OthersBusy(t)]
    /\ UNCHANGED <<pc, cmpStar, catalog, built, index, filter,
                   vulnerabilities, affected, calls, ret>>

\* self.affected[identifier] = []
CreateList(t) ==
    /\ threads[t].pc = "create"
    /\ affected' = WithEmptyList(affected, Head(threads[t].todo))
    /\ threads' = [threads EXCEPT
           ![t].pc = "append",
           ![t].raced = @ \/ OthersBusy(t)]
    /\ UNCHANGED <<pc, cmpStar, catalog, built, index, filter,
                   vulnerabilities, calls, ret>>

\* self.affected[identifier].append(software), then the next identifier.
AppendSoftware(t) ==
    /\ threads[t].pc = "append"
    /\ affected' = WithAppended(affected, Head(threads[t].todo),
                                threads[t].software)
    /\ threads' = [threads EXCEPT
           ![t].todo = Tail(@),
           ![t].pc = IF Tail(threads[t].todo) = <<>> THEN "return"
                     ELSE "test",
           ![t].raced = @ \/ OthersBusy(t)]
    /\ UNCHANGED <<pc, cmpStar, catalog, built, index, filter,
                   vulnerabilities, calls, ret>>

\* return vulnerabilities
ReturnScan(t) ==
    /\ threads[t].pc = "return"
    /\ calls' = Append(calls, [software |-> threads[t].software,
                               found |-> threads[t].found,
                               result |-> threads[t].result])
    /\ ret' = [op |-> "scan", software |-> threads[t].software,
               result |-> threads[t].result]
    /\ threads' = [threads EXCEPT
           ![t] = [IdleThread EXCEPT
                       !.raced = threads[t].raced \/ OthersBusy(t)]]
    /\ UNCHANGED <<pc, cmpStar, catalog, built, index, filter,
                   vulnerabilities, affected>>

NextConcurrent ==
    \/ AddVulnerabilityToIndex
    \/ IndexBuilt
    \/ \E t \in Threads, software \in SharedTargets : BeginScan(t, software)
    \/ \E t \in Threads : UpdateVulnerabilities(t)
    \/ \E t \in Threads : TestMembership(t)
    \/ \E t \in Threads : CreateList(t)
    \/ \E t \in Threads : AppendSoftware(t)
    \/ \E t \in Threads : ReturnScan(t)

SpecConcurrent == InitConcurrent /\ [][NextConcurrent]_vars

----------------------------------------------------------------------------
(* Concurrent scan calls, under SpecConcurrent *)

AllReturned == pc = "ready" /\ InProgress = {}

\* Some call took a step while another call was in progress.
Overlapped == \E t \in Threads : threads[t].raced

\* C11: concurrent scan calls on one scanner need external mutual
\* exclusion.  Once every call has returned: if no call ran while another
\* was in progress (each call was one atomic step), the accumulators are
\* those of the sequential execution of the calls in the order they ran; in
\* any case no identifier is missing from vulnerabilities and
\* get_affected_count() is at most the number of matches returned.  That it
\* can be smaller, an append being lost when two calls matching the same new
\* identifier interleave between the membership test, the creation of the
\* list and the append, is the reachable state C11_Witness.
C11_SequentialUnlessInterleaved ==
    AllReturned =>
        /\ DOMAIN vulnerabilities = Returned
        /\ DOMAIN affected = Returned
        /\ get_affected_count <= TotalReturned(Len(calls))
        /\ ~Overlapped => C4_Accumulation
        /\ get_affected_count < TotalReturned(Len(calls)) => Overlapped

\* C11 witness: two interleaved calls both returned A, which was new to
\* both; both have returned, and affected[A] holds one entry instead of two.
C11_Witness ==
    /\ AllReturned
    /\ Overlapped
    /\ Len(calls) = 2
    /\ "A" \in DOMAIN calls[1].result
    /\ "A" \in DOMAIN calls[2].result
    /\ Len(affected["A"]) = 1
    /\ get_affected_count < TotalReturned(Len(calls))

====
